---- MODULE Spec2Model ----
(***************************************************************************)
(* Document Analyzer: the in-memory DocumentStore, the TextAnalyzer        *)
(* functions and the tool handlers of src/main.py.                         *)
(*                                                                         *)
(* A Python str is a sequence of one-character strings, so that lower(),   *)
(* re.sub, split(), str(int), `in` and f-strings are computed character by *)
(* character.  A Python dict is a sequence of <<key, value>> entries in    *)
(* insertion order.  None is <<>> and a present optional value v is <<v>>. *)
(* A float that the code rounds to 3 decimals is held in thousandths.      *)
(***************************************************************************)
EXTENDS Integers, Sequences, FiniteSets, TLC

VARIABLES
  documents,   \* DocumentStore.documents: the dict id -> record
  next_id,     \* DocumentStore.next_id
  now,         \* the wall clock read by datetime.now()
  call,        \* the tool request being answered (sequential server)
  ret,         \* the value the last tool call returned
  returned,    \* history: the ids add_document has returned, in order
  text,        \* the text argument handed to a TextAnalyzer tool
  pc,          \* concurrent server: each worker's position in add_document
  arg,         \* concurrent server: each worker's doc_data
  doc_id,      \* concurrent server: each worker's local doc_id
  tmp,         \* concurrent server: each worker's loaded value of next_id
  tret         \* concurrent server: each worker's returned id

vars ==
  <<documents, next_id, now, call, ret, returned, text, pc, arg, doc_id, tmp, tret>>

(***************************************************************************)
(* Bounds of the model.                                                    *)
(***************************************************************************)
MaxUserAdds == 2    \* user add_document calls in one run
MaxClock == 1       \* clock ticks in one run
MaxRichLen == 3     \* pieces in a mixed-case, punctuated text
MaxPlainLen == 6    \* words in a plain text
MaxWordLen == 4     \* characters in a word handed to count_syllables

(***************************************************************************)
(* Characters and str methods.                                             *)
(***************************************************************************)
UpperLetters ==
  <<"A","B","C","D","E","F","G","H","I","J","K","L","M",
    "N","O","P","Q","R","S","T","U","V","W","X","Y","Z">>

LowerLetters ==
  <<"a","b","c","d","e","f","g","h","i","j","k","l","m",
    "n","o","p","q","r","s","t","u","v","w","x","y","z">>

DigitChars == <<"0","1","2","3","4","5","6","7","8","9">>

Range(s) == { s[i] : i \in DOMAIN s }

UpperSet == Range(UpperLetters)

LowerSet == Range(LowerLetters)

DigitSet == Range(DigitChars)

\* the characters \s matches
Whitespace == { " ", "\t", "\n", "\r", "\f" }

\* the characters \w matches
WordChars == UpperSet \cup LowerSet \cup DigitSet \cup { "_" }

LowerOf == [ c \in UpperSet |-> LowerLetters[CHOOSE i \in 1..26 : UpperLetters[i] = c] ]

\* str.lower() on one character
LowerChar(c) == IF c \in UpperSet THEN LowerOf[c] ELSE c

\* str.lower()
Lower(s) == [ i \in 1..Len(s) |-> LowerChar(s[i]) ]

\* the Python test `sub in s` on two strings
Contains(sub, s) ==
  \E i \in 0..(Len(s) - Len(sub)) : \A j \in 1..Len(sub) : s[i + j] = sub[j]

\* the number a digit character stands for
DigitValue(c) == (CHOOSE i \in 1..10 : DigitChars[i] = c) - 1

\* the number a nonempty string of digits denotes in base 10
RECURSIVE DecimalValue(_)
DecimalValue(s) ==
  IF Len(s) = 1 THEN DigitValue(s[1])
  ELSE 10 * DecimalValue(SubSeq(s, 1, Len(s) - 1)) + DigitValue(s[Len(s)])

\* s is the base-10 numeral of a positive int: digits only, no leading zero
IsNumeral(s) ==
  /\ Len(s) >= 1
  /\ \A i \in 1..Len(s) : s[i] \in DigitSet
  /\ s[1] # "0"

\* mutant of Str: the digits least significant first
RECURSIVE Str_reversed(_)
Str_reversed(n) == IF n < 10 THEN <<DigitChars[n + 1]>>
                   ELSE <<DigitChars[(n % 10) + 1]>> \o Str_reversed(n \div 10)

\* str(n) for an int n >= 0: its base-10 digits, most significant first
RECURSIVE Str(_)
Str(n) == IF n < 10 THEN <<DigitChars[n + 1]>>
          ELSE Str(n \div 10) \o <<DigitChars[(n % 10) + 1]>>

\* s[:n] for n >= 0
Prefix(s, n) == IF Len(s) > n THEN SubSeq(s, 1, n) ELSE s

\* mutant of Round3: always rounds up
Round3_up(num, den) ==
  IF (1000 * num) % den = 0 THEN (1000 * num) \div den ELSE ((1000 * num) \div den) + 1

\* round(num / den, 3) in thousandths, for ints num and den > 0.
\* Python rounds the double nearest num/den half-to-even; a tie needs num/den
\* to be an odd multiple of 1/2000, which for den < 80 is an odd multiple of
\* 1/16 and an exact double, so the exact quotient decides.
Round3(num, den) ==
  LET q == (1000 * num) \div den
      r == (1000 * num) % den
  IN  IF 2 * r < den THEN q
      ELSE IF 2 * r > den THEN q + 1
      ELSE IF q % 2 = 0 THEN q ELSE q + 1

(***************************************************************************)
(* TextAnalyzer lexicons and the sample documents.                         *)
(***************************************************************************)
\* mutant of NEGATIVE_WORDS: a lexicon that shares "good" with POSITIVE_WORDS
NEGATIVE_WORDS_sharingGood == { <<"b","a","d">>, <<"g","o","o","d">> }

POSITIVE_WORDS ==
  { <<"g","o","o","d">>,
    <<"g","r","e","a","t">>,
    <<"e","x","c","e","l","l","e","n","t">>,
    <<"a","m","a","z","i","n","g">>,
    <<"w","o","n","d","e","r","f","u","l">>,
    <<"f","a","n","t","a","s","t","i","c">>,
    <<"a","w","e","s","o","m","e">>,
    <<"l","o","v","e">>,
    <<"l","i","k","e">>,
    <<"e","n","j","o","y">>,
    <<"h","a","p","p","y">>,
    <<"p","l","e","a","s","e","d">>,
    <<"s","a","t","i","s","f","i","e","d">>,
    <<"d","e","l","i","g","h","t","e","d">>,
    <<"b","e","n","e","f","i","t","s">>,
    <<"a","d","v","a","n","t","a","g","e","s">>,
    <<"s","u","c","c","e","s","s">>,
    <<"e","f","f","e","c","t","i","v","e">>,
    <<"e","f","f","i","c","i","e","n","t">>,
    <<"i","m","p","r","o","v","e">>,
    <<"b","e","t","t","e","r">>,
    <<"b","e","s","t">>,
    <<"p","e","r","f","e","c","t">>,
    <<"o","u","t","s","t","a","n","d","i","n","g">>,
    <<"r","e","m","a","r","k","a","b","l","e">>,
    <<"p","o","s","i","t","i","v","e">>,
    <<"o","p","p","o","r","t","u","n","i","t","y">>,
    <<"s","o","l","u","t","i","o","n">>,
    <<"h","e","l","p","f","u","l">>,
    <<"u","s","e","f","u","l">>,
    <<"v","a","l","u","a","b","l","e">>,
    <<"i","m","p","o","r","t","a","n","t">>,
    <<"e","s","s","e","n","t","i","a","l">>,
    <<"c","r","u","c","i","a","l">>,
    <<"s","i","g","n","i","f","i","c","a","n","t">>,
    <<"r","e","w","a","r","d","i","n","g">>,
    <<"p","r","o","m","i","s","i","n","g">> }

NEGATIVE_WORDS ==
  { <<"b","a","d">>,
    <<"t","e","r","r","i","b","l","e">>,
    <<"a","w","f","u","l">>,
    <<"h","o","r","r","i","b","l","e">>,
    <<"h","a","t","e">>,
    <<"d","i","s","l","i","k","e">>,
    <<"s","a","d">>,
    <<"d","i","s","a","p","p","o","i","n","t","e","d">>,
    <<"f","r","u","s","t","r","a","t","e","d">>,
    <<"a","n","g","r","y">>,
    <<"a","n","n","o","y","e","d">>,
    <<"p","r","o","b","l","e","m","s">>,
    <<"i","s","s","u","e","s">>,
    <<"c","h","a","l","l","e","n","g","e","s">>,
    <<"d","i","f","f","i","c","u","l","t">>,
    <<"h","a","r","d">>,
    <<"i","m","p","o","s","s","i","b","l","e">>,
    <<"f","a","i","l","u","r","e">>,
    <<"f","a","i","l">>,
    <<"w","o","r","s","t">>,
    <<"p","o","o","r">>,
    <<"d","i","s","a","p","p","o","i","n","t","i","n","g">>,
    <<"n","e","g","a","t","i","v","e">>,
    <<"w","r","o","n","g">>,
    <<"e","r","r","o","r">>,
    <<"m","i","s","t","a","k","e","s">>,
    <<"c","o","n","c","e","r","n","i","n","g">>,
    <<"w","o","r","r","i","e","d">>,
    <<"s","t","r","e","s","s">>,
    <<"o","v","e","r","w","h","e","l","m","i","n","g">> }

STOP_WORDS ==
  { <<"t","h","e">>,
    <<"a">>,
    <<"a","n">>,
    <<"a","n","d">>,
    <<"o","r">>,
    <<"b","u","t">>,
    <<"i","n">>,
    <<"o","n">>,
    <<"a","t">>,
    <<"t","o">>,
    <<"f","o","r">>,
    <<"o","f">>,
    <<"w","i","t","h">>,
    <<"b","y">>,
    <<"i","s">>,
    <<"a","r","e">>,
    <<"w","a","s">>,
    <<"w","e","r","e">>,
    <<"b","e">>,
    <<"b","e","e","n">>,
    <<"h","a","v","e">>,
    <<"h","a","s">>,
    <<"h","a","d">>,
    <<"d","o">>,
    <<"d","o","e","s">>,
    <<"d","i","d">>,
    <<"w","i","l","l">>,
    <<"w","o","u","l","d">>,
    <<"c","o","u","l","d">>,
    <<"s","h","o","u","l","d">>,
    <<"m","a","y">>,
    <<"m","i","g","h","t">>,
    <<"c","a","n">>,
    <<"t","h","i","s">>,
    <<"t","h","a","t">>,
    <<"t","h","e","s","e">>,
    <<"t","h","o","s","e">>,
    <<"i">>,
    <<"y","o","u">>,
    <<"h","e">>,
    <<"s","h","e">>,
    <<"i","t">>,
    <<"w","e">>,
    <<"t","h","e","y">>,
    <<"m","e">>,
    <<"h","i","m">>,
    <<"h","e","r">>,
    <<"u","s">>,
    <<"t","h","e","m">>,
    <<"m","y">>,
    <<"y","o","u","r">>,
    <<"h","i","s">>,
    <<"i","t","s">>,
    <<"o","u","r">>,
    <<"t","h","e","i","r">>,
    <<"a","l","l">>,
    <<"a","n","y">>,
    <<"e","a","c","h">>,
    <<"f","e","w">>,
    <<"m","o","r","e">>,
    <<"m","o","s","t">>,
    <<"o","t","h","e","r">>,
    <<"s","o","m","e">>,
    <<"s","u","c","h">>,
    <<"n","o">>,
    <<"n","o","t">>,
    <<"o","n","l","y">>,
    <<"o","w","n">>,
    <<"s","a","m","e">>,
    <<"s","o">>,
    <<"t","h","a","n">>,
    <<"t","o","o">>,
    <<"v","e","r","y">>,
    <<"j","u","s","t">>,
    <<"n","o","w">> }

\* sample_docs[0]: "The Benefits of Renewable Energy"
SampleDoc1 ==
  [ title |->
      <<"T","h","e"," ","B","e","n","e","f","i","t","s"," ","o","f"," ","R","e","n","e","w","a","b",
        "l","e"," ","E","n","e","r","g","y">>,
    content |->
      <<"R","e","n","e","w","a","b","l","e"," ","e","n","e","r","g","y"," ","s","o","u","r","c","e",
        "s"," ","l","i","k","e"," ","s","o","l","a","r"," ","a","n","d"," ","w","i","n","d"," ","p",
        "o","w","e","r"," ","o","f","f","e","r"," ","t","r","e","m","e","n","d","o","u","s"," ","b",
        "e","n","e","f","i","t","s"," ","f","o","r"," ","o","u","r"," ","p","l","a","n","e","t",".",
        " ","T","h","e","y"," ","r","e","d","u","c","e"," ","g","r","e","e","n","h","o","u","s","e",
        " ","g","a","s"," ","e","m","i","s","s","i","o","n","s",","," ","c","r","e","a","t","e"," ",
        "j","o","b","s",","," ","a","n","d"," ","p","r","o","v","i","d","e"," ","s","u","s","t","a",
        "i","n","a","b","l","e"," ","s","o","l","u","t","i","o","n","s"," ","f","o","r"," ","f","u",
        "t","u","r","e"," ","g","e","n","e","r","a","t","i","o","n","s","."," ","S","o","l","a","r",
        " ","p","a","n","e","l","s"," ","a","n","d"," ","w","i","n","d"," ","t","u","r","b","i","n",
        "e","s"," ","a","r","e"," ","b","e","c","o","m","i","n","g"," ","m","o","r","e"," ","e","f",
        "f","i","c","i","e","n","t"," ","a","n","d"," ","c","o","s","t","-","e","f","f","e","c","t",
        "i","v","e"," ","e","a","c","h"," ","y","e","a","r",".">>,
    author |-> <<"Dr. Sarah Johnson">>,
    category |-> <<"Environment">>,
    tags |-> << <<"r","e","n","e","w","a","b","l","e">>,
              <<"e","n","e","r","g","y">>,
              <<"s","u","s","t","a","i","n","a","b","i","l","i","t","y">> >> ]

\* sample_docs[1]: "Introduction to Machine Learning"
SampleDoc2 ==
  [ title |->
      <<"I","n","t","r","o","d","u","c","t","i","o","n"," ","t","o"," ","M","a","c","h","i","n","e",
        " ","L","e","a","r","n","i","n","g">>,
    content |->
      <<"M","a","c","h","i","n","e"," ","l","e","a","r","n","i","n","g"," ","i","s"," ","a"," ","s",
        "u","b","s","e","t"," ","o","f"," ","a","r","t","i","f","i","c","i","a","l"," ","i","n","t",
        "e","l","l","i","g","e","n","c","e"," ","t","h","a","t"," ","e","n","a","b","l","e","s"," ",
        "c","o","m","p","u","t","e","r","s"," ","t","o"," ","l","e","a","r","n"," ","w","i","t","h",
        "o","u","t"," ","b","e","i","n","g"," ","e","x","p","l","i","c","i","t","l","y"," ","p","r",
        "o","g","r","a","m","m","e","d","."," ","I","t"," ","i","n","v","o","l","v","e","s"," ","a",
        "l","g","o","r","i","t","h","m","s"," ","t","h","a","t"," ","c","a","n"," ","i","d","e","n",
        "t","i","f","y"," ","p","a","t","t","e","r","n","s"," ","i","n"," ","d","a","t","a"," ","a",
        "n","d"," ","m","a","k","e"," ","p","r","e","d","i","c","t","i","o","n","s","."," ","P","o",
        "p","u","l","a","r"," ","t","e","c","h","n","i","q","u","e","s"," ","i","n","c","l","u","d",
        "e"," ","s","u","p","e","r","v","i","s","e","d"," ","l","e","a","r","n","i","n","g",","," ",
        "u","n","s","u","p","e","r","v","i","s","e","d"," ","l","e","a","r","n","i","n","g",","," ",
        "a","n","d"," ","r","e","i","n","f","o","r","c","e","m","e","n","t"," ","l","e","a","r","n",
        "i","n","g",".">>,
    author |-> <<"Prof. Alex Chen">>,
    category |-> <<"Technology">>,
    tags |-> << <<"m","a","c","h","i","n","e"," ","l","e","a","r","n","i","n","g">>,
              <<"A","I">>,
              <<"a","l","g","o","r","i","t","h","m","s">> >> ]

\* sample_docs[2]: "Healthy Eating Habits"
SampleDoc3 ==
  [ title |->
      <<"H","e","a","l","t","h","y"," ","E","a","t","i","n","g"," ","H","a","b","i","t","s">>,
    content |->
      <<"M","a","i","n","t","a","i","n","i","n","g"," ","a"," ","b","a","l","a","n","c","e","d"," ",
        "d","i","e","t"," ","i","s"," ","c","r","u","c","i","a","l"," ","f","o","r"," ","g","o","o",
        "d"," ","h","e","a","l","t","h","."," ","I","n","c","l","u","d","e"," ","p","l","e","n","t",
        "y"," ","o","f"," ","f","r","u","i","t","s",","," ","v","e","g","e","t","a","b","l","e","s",
        ","," ","w","h","o","l","e"," ","g","r","a","i","n","s",","," ","a","n","d"," ","l","e","a",
        "n"," ","p","r","o","t","e","i","n","s"," ","i","n"," ","y","o","u","r"," ","m","e","a","l",
        "s","."," ","L","i","m","i","t"," ","p","r","o","c","e","s","s","e","d"," ","f","o","o","d",
        "s",","," ","s","u","g","a","r","y"," ","d","r","i","n","k","s",","," ","a","n","d"," ","e",
        "x","c","e","s","s","i","v","e"," ","a","m","o","u","n","t","s"," ","o","f"," ","s","a","t",
        "u","r","a","t","e","d"," ","f","a","t","s","."," ","R","e","g","u","l","a","r"," ","m","e",
        "a","l"," ","t","i","m","e","s"," ","a","n","d"," ","p","r","o","p","e","r"," ","h","y","d",
        "r","a","t","i","o","n"," ","a","r","e"," ","e","q","u","a","l","l","y"," ","i","m","p","o",
        "r","t","a","n","t",".">>,
    author |-> <<"Lisa Martinez">>,
    category |-> <<"Health">>,
    tags |-> << <<"n","u","t","r","i","t","i","o","n">>,
              <<"d","i","e","t">>,
              <<"w","e","l","l","n","e","s","s">> >> ]

\* sample_docs[3]: "The Art of Photography"
SampleDoc4 ==
  [ title |->
      <<"T","h","e"," ","A","r","t"," ","o","f"," ","P","h","o","t","o","g","r","a","p","h","y">>,
    content |->
      <<"P","h","o","t","o","g","r","a","p","h","y"," ","i","s"," ","b","o","t","h"," ","a","n"," ",
        "a","r","t"," ","a","n","d"," ","a"," ","s","c","i","e","n","c","e","."," ","U","n","d","e",
        "r","s","t","a","n","d","i","n","g"," ","c","o","m","p","o","s","i","t","i","o","n",","," ",
        "l","i","g","h","t","i","n","g",","," ","a","n","d"," ","t","i","m","i","n","g"," ","c","a",
        "n"," ","d","r","a","m","a","t","i","c","a","l","l","y"," ","i","m","p","r","o","v","e"," ",
        "y","o","u","r"," ","p","h","o","t","o","s","."," ","T","h","e"," ","r","u","l","e"," ","o",
        "f"," ","t","h","i","r","d","s",","," ","l","e","a","d","i","n","g"," ","l","i","n","e","s",
        ","," ","a","n","d"," ","p","r","o","p","e","r"," ","e","x","p","o","s","u","r","e"," ","a",
        "r","e"," ","f","u","n","d","a","m","e","n","t","a","l"," ","c","o","n","c","e","p","t","s",
        " ","e","v","e","r","y"," ","p","h","o","t","o","g","r","a","p","h","e","r"," ","s","h","o",
        "u","l","d"," ","m","a","s","t","e","r",".">>,
    author |-> <<"Michael Thompson">>,
    category |-> <<"Arts">>,
    tags |-> << <<"p","h","o","t","o","g","r","a","p","h","y">>,
              <<"c","o","m","p","o","s","i","t","i","o","n">>,
              <<"a","r","t">> >> ]

\* sample_docs[4]: "Climate Change Impact"
SampleDoc5 ==
  [ title |->
      <<"C","l","i","m","a","t","e"," ","C","h","a","n","g","e"," ","I","m","p","a","c","t">>,
    content |->
      <<"C","l","i","m","a","t","e"," ","c","h","a","n","g","e"," ","p","o","s","e","s"," ","s","i",
        "g","n","i","f","i","c","a","n","t"," ","c","h","a","l","l","e","n","g","e","s"," ","t","o",
        " ","o","u","r"," ","p","l","a","n","e","t","."," ","R","i","s","i","n","g"," ","t","e","m",
        "p","e","r","a","t","u","r","e","s",","," ","m","e","l","t","i","n","g"," ","i","c","e"," ",
        "c","a","p","s",","," ","a","n","d"," ","e","x","t","r","e","m","e"," ","w","e","a","t","h",
        "e","r"," ","e","v","e","n","t","s"," ","a","r","e"," ","b","e","c","o","m","i","n","g"," ",
        "m","o","r","e"," ","f","r","e","q","u","e","n","t","."," ","W","e"," ","m","u","s","t"," ",
        "t","a","k","e"," ","i","m","m","e","d","i","a","t","e"," ","a","c","t","i","o","n"," ","t",
        "o"," ","r","e","d","u","c","e"," ","c","a","r","b","o","n"," ","e","m","i","s","s","i","o",
        "n","s"," ","a","n","d"," ","t","r","a","n","s","i","t","i","o","n"," ","t","o"," ","s","u",
        "s","t","a","i","n","a","b","l","e"," ","p","r","a","c","t","i","c","e","s",".">>,
    author |-> <<"Dr. Emma Wilson">>,
    category |-> <<"Environment">>,
    tags |-> << <<"c","l","i","m","a","t","e">>,
              <<"g","l","o","b","a","l"," ","w","a","r","m","i","n","g">>,
              <<"e","n","v","i","r","o","n","m","e","n","t">> >> ]

\* sample_docs[5]: "Financial Planning for Beginners"
SampleDoc6 ==
  [ title |->
      <<"F","i","n","a","n","c","i","a","l"," ","P","l","a","n","n","i","n","g"," ","f","o","r"," ",
        "B","e","g","i","n","n","e","r","s">>,
    content |->
      <<"S","t","a","r","t","i","n","g"," ","y","o","u","r"," ","f","i","n","a","n","c","i","a","l",
        " ","j","o","u","r","n","e","y"," ","c","a","n"," ","s","e","e","m"," ","o","v","e","r","w",
        "h","e","l","m","i","n","g",","," ","b","u","t"," ","i","t"," ","d","o","e","s","n","'","t",
        " ","h","a","v","e"," ","t","o"," ","b","e","."," ","B","e","g","i","n"," ","w","i","t","h",
        " ","c","r","e","a","t","i","n","g"," ","a"," ","b","u","d","g","e","t",","," ","b","u","i",
        "l","d","i","n","g"," ","a","n"," ","e","m","e","r","g","e","n","c","y"," ","f","u","n","d",
        ","," ","a","n","d"," ","u","n","d","e","r","s","t","a","n","d","i","n","g"," ","t","h","e",
        " ","b","a","s","i","c","s"," ","o","f"," ","i","n","v","e","s","t","i","n","g","."," ","C",
        "o","m","p","o","u","n","d"," ","i","n","t","e","r","e","s","t"," ","i","s"," ","y","o","u",
        "r"," ","f","r","i","e","n","d"," ","w","h","e","n"," ","y","o","u"," ","s","t","a","r","t",
        " ","e","a","r","l","y",".">>,
    author |-> <<"Robert Davis">>,
    category |-> <<"Finance">>,
    tags |-> << <<"f","i","n","a","n","c","e">>,
              <<"b","u","d","g","e","t","i","n","g">>,
              <<"i","n","v","e","s","t","i","n","g">> >> ]

\* sample_docs[6]: "The Future of Transportation"
SampleDoc7 ==
  [ title |->
      <<"T","h","e"," ","F","u","t","u","r","e"," ","o","f"," ","T","r","a","n","s","p","o","r","t",
        "a","t","i","o","n">>,
    content |->
      <<"T","r","a","n","s","p","o","r","t","a","t","i","o","n"," ","i","s"," ","e","v","o","l","v",
        "i","n","g"," ","r","a","p","i","d","l","y"," ","w","i","t","h"," ","e","l","e","c","t","r",
        "i","c"," ","v","e","h","i","c","l","e","s",","," ","a","u","t","o","n","o","m","o","u","s",
        " ","d","r","i","v","i","n","g",","," ","a","n","d"," ","h","y","p","e","r","l","o","o","p",
        " ","t","e","c","h","n","o","l","o","g","y","."," ","T","h","e","s","e"," ","i","n","n","o",
        "v","a","t","i","o","n","s"," ","p","r","o","m","i","s","e"," ","t","o"," ","r","e","d","u",
        "c","e"," ","e","m","i","s","s","i","o","n","s",","," ","i","m","p","r","o","v","e"," ","s",
        "a","f","e","t","y",","," ","a","n","d"," ","r","e","v","o","l","u","t","i","o","n","i","z",
        "e"," ","h","o","w"," ","w","e"," ","m","o","v","e"," ","p","e","o","p","l","e"," ","a","n",
        "d"," ","g","o","o","d","s",".">>,
    author |-> <<"Jennifer Lee">>,
    category |-> <<"Technology">>,
    tags |-> << <<"t","r","a","n","s","p","o","r","t","a","t","i","o","n">>,
              <<"e","l","e","c","t","r","i","c"," ","v","e","h","i","c","l","e","s">>,
              <<"i","n","n","o","v","a","t","i","o","n">> >> ]

\* sample_docs[7]: "Effective Team Communication"
SampleDoc8 ==
  [ title |->
      <<"E","f","f","e","c","t","i","v","e"," ","T","e","a","m"," ","C","o","m","m","u","n","i","c",
        "a","t","i","o","n">>,
    content |->
      <<"C","l","e","a","r"," ","c","o","m","m","u","n","i","c","a","t","i","o","n"," ","i","s"," ",
        "t","h","e"," ","f","o","u","n","d","a","t","i","o","n"," ","o","f"," ","s","u","c","c","e",
        "s","s","f","u","l"," ","t","e","a","m","s","."," ","A","c","t","i","v","e"," ","l","i","s",
        "t","e","n","i","n","g",","," ","r","e","g","u","l","a","r"," ","f","e","e","d","b","a","c",
        "k",","," ","a","n","d"," ","o","p","e","n"," ","d","i","a","l","o","g","u","e"," ","f","o",
        "s","t","e","r"," ","c","o","l","l","a","b","o","r","a","t","i","o","n","."," ","U","s","e",
        " ","a","p","p","r","o","p","r","i","a","t","e"," ","c","o","m","m","u","n","i","c","a","t",
        "i","o","n"," ","c","h","a","n","n","e","l","s"," ","a","n","d"," ","b","e"," ","r","e","s",
        "p","e","c","t","f","u","l"," ","o","f"," ","d","i","f","f","e","r","e","n","t"," ","p","e",
        "r","s","p","e","c","t","i","v","e","s"," ","a","n","d"," ","w","o","r","k","i","n","g"," ",
        "s","t","y","l","e","s",".">>,
    author |-> <<"David Park">>,
    category |-> <<"Business">>,
    tags |-> << <<"c","o","m","m","u","n","i","c","a","t","i","o","n">>,
              <<"t","e","a","m","w","o","r","k">>,
              <<"l","e","a","d","e","r","s","h","i","p">> >> ]

\* sample_docs[8]: "Gardening for Beginners"
SampleDoc9 ==
  [ title |->
      <<"G","a","r","d","e","n","i","n","g"," ","f","o","r"," ","B","e","g","i","n","n","e","r","s">>,
    content |->
      <<"S","t","a","r","t","i","n","g"," ","a"," ","g","a","r","d","e","n"," ","c","a","n"," ","b",
        "e"," ","i","n","c","r","e","d","i","b","l","y"," ","r","e","w","a","r","d","i","n","g",".",
        " ","C","h","o","o","s","e"," ","p","l","a","n","t","s"," ","s","u","i","t","a","b","l","e",
        " ","f","o","r"," ","y","o","u","r"," ","c","l","i","m","a","t","e"," ","a","n","d"," ","s",
        "o","i","l"," ","t","y","p","e","."," ","P","r","o","p","e","r"," ","w","a","t","e","r","i",
        "n","g",","," ","s","u","n","l","i","g","h","t",","," ","a","n","d"," ","f","e","r","t","i",
        "l","i","z","a","t","i","o","n"," ","a","r","e"," ","e","s","s","e","n","t","i","a","l"," ",
        "f","o","r"," ","h","e","a","l","t","h","y"," ","p","l","a","n","t"," ","g","r","o","w","t",
        "h","."," ","S","t","a","r","t"," ","s","m","a","l","l"," ","a","n","d"," ","e","x","p","a",
        "n","d"," ","y","o","u","r"," ","g","a","r","d","e","n"," ","a","s"," ","y","o","u"," ","g",
        "a","i","n"," ","e","x","p","e","r","i","e","n","c","e",".">>,
    author |-> <<"Mary Rodriguez">>,
    category |-> <<"Lifestyle">>,
    tags |-> << <<"g","a","r","d","e","n","i","n","g">>,
              <<"p","l","a","n","t","s">>,
              <<"o","u","t","d","o","o","r">> >> ]

\* sample_docs[9]: "The Science of Sleep"
SampleDoc10 ==
  [ title |->
      <<"T","h","e"," ","S","c","i","e","n","c","e"," ","o","f"," ","S","l","e","e","p">>,
    content |->
      <<"S","l","e","e","p"," ","i","s"," ","e","s","s","e","n","t","i","a","l"," ","f","o","r"," ",
        "p","h","y","s","i","c","a","l"," ","a","n","d"," ","m","e","n","t","a","l"," ","h","e","a",
        "l","t","h","."," ","D","u","r","i","n","g"," ","s","l","e","e","p",","," ","o","u","r"," ",
        "b","o","d","i","e","s"," ","r","e","p","a","i","r"," ","t","i","s","s","u","e","s",","," ",
        "c","o","n","s","o","l","i","d","a","t","e"," ","m","e","m","o","r","i","e","s",","," ","a",
        "n","d"," ","r","e","g","u","l","a","t","e"," ","h","o","r","m","o","n","e","s","."," ","M",
        "o","s","t"," ","a","d","u","l","t","s"," ","n","e","e","d"," ","7","-","9"," ","h","o","u",
        "r","s"," ","o","f"," ","q","u","a","l","i","t","y"," ","s","l","e","e","p"," ","p","e","r",
        " ","n","i","g","h","t"," ","f","o","r"," ","o","p","t","i","m","a","l"," ","f","u","n","c",
        "t","i","o","n","i","n","g",".">>,
    author |-> <<"Dr. James Williams">>,
    category |-> <<"Health">>,
    tags |-> << <<"s","l","e","e","p">>,
              <<"h","e","a","l","t","h">>,
              <<"w","e","l","l","n","e","s","s">> >> ]

\* sample_docs[10]: "Digital Marketing Strategies"
SampleDoc11 ==
  [ title |->
      <<"D","i","g","i","t","a","l"," ","M","a","r","k","e","t","i","n","g"," ","S","t","r","a","t",
        "e","g","i","e","s">>,
    content |->
      <<"D","i","g","i","t","a","l"," ","m","a","r","k","e","t","i","n","g"," ","h","a","s"," ","t",
        "r","a","n","s","f","o","r","m","e","d"," ","h","o","w"," ","b","u","s","i","n","e","s","s",
        "e","s"," ","r","e","a","c","h"," ","c","u","s","t","o","m","e","r","s","."," ","S","o","c",
        "i","a","l"," ","m","e","d","i","a",","," ","c","o","n","t","e","n","t"," ","m","a","r","k",
        "e","t","i","n","g",","," ","a","n","d"," ","s","e","a","r","c","h"," ","e","n","g","i","n",
        "e"," ","o","p","t","i","m","i","z","a","t","i","o","n"," ","a","r","e"," ","k","e","y"," ",
        "c","o","m","p","o","n","e","n","t","s","."," ","U","n","d","e","r","s","t","a","n","d","i",
        "n","g"," ","y","o","u","r"," ","t","a","r","g","e","t"," ","a","u","d","i","e","n","c","e",
        " ","a","n","d"," ","m","e","a","s","u","r","i","n","g"," ","c","a","m","p","a","i","g","n",
        " ","p","e","r","f","o","r","m","a","n","c","e"," ","a","r","e"," ","c","r","u","c","i","a",
        "l"," ","f","o","r"," ","s","u","c","c","e","s","s",".">>,
    author |-> <<"Amanda Clark">>,
    category |-> <<"Business">>,
    tags |-> << <<"m","a","r","k","e","t","i","n","g">>,
              <<"d","i","g","i","t","a","l">>,
              <<"s","o","c","i","a","l"," ","m","e","d","i","a">> >> ]

\* sample_docs[11]: "Mindfulness and Meditation"
SampleDoc12 ==
  [ title |->
      <<"M","i","n","d","f","u","l","n","e","s","s"," ","a","n","d"," ","M","e","d","i","t","a","t",
        "i","o","n">>,
    content |->
      <<"M","i","n","d","f","u","l","n","e","s","s"," ","p","r","a","c","t","i","c","e","s"," ","c",
        "a","n"," ","r","e","d","u","c","e"," ","s","t","r","e","s","s"," ","a","n","d"," ","i","m",
        "p","r","o","v","e"," ","m","e","n","t","a","l"," ","c","l","a","r","i","t","y","."," ","R",
        "e","g","u","l","a","r"," ","m","e","d","i","t","a","t","i","o","n",","," ","e","v","e","n",
        " ","f","o","r"," ","j","u","s","t"," ","1","0"," ","m","i","n","u","t","e","s"," ","d","a",
        "i","l","y",","," ","c","a","n"," ","h","a","v","e"," ","p","r","o","f","o","u","n","d"," ",
        "b","e","n","e","f","i","t","s","."," ","F","o","c","u","s"," ","o","n"," ","b","r","e","a",
        "t","h","i","n","g",","," ","b","o","d","y"," ","a","w","a","r","e","n","e","s","s",","," ",
        "a","n","d"," ","p","r","e","s","e","n","t","-","m","o","m","e","n","t"," ","a","t","t","e",
        "n","t","i","o","n",".">>,
    author |-> <<"Sarah Kumar">>,
    category |-> <<"Wellness">>,
    tags |-> << <<"m","i","n","d","f","u","l","n","e","s","s">>,
              <<"m","e","d","i","t","a","t","i","o","n">>,
              <<"s","t","r","e","s","s"," ","r","e","l","i","e","f">> >> ]

\* sample_docs[12]: "Sustainable Living Tips"
SampleDoc13 ==
  [ title |->
      <<"S","u","s","t","a","i","n","a","b","l","e"," ","L","i","v","i","n","g"," ","T","i","p","s">>,
    content |->
      <<"S","m","a","l","l"," ","c","h","a","n","g","e","s"," ","i","n"," ","d","a","i","l","y"," ",
        "h","a","b","i","t","s"," ","c","a","n"," ","m","a","k","e"," ","a"," ","b","i","g"," ","e",
        "n","v","i","r","o","n","m","e","n","t","a","l"," ","i","m","p","a","c","t","."," ","R","e",
        "d","u","c","e"," ","w","a","s","t","e",","," ","c","o","n","s","e","r","v","e"," ","e","n",
        "e","r","g","y",","," ","c","h","o","o","s","e"," ","e","c","o","-","f","r","i","e","n","d",
        "l","y"," ","p","r","o","d","u","c","t","s",","," ","a","n","d"," ","s","u","p","p","o","r",
        "t"," ","s","u","s","t","a","i","n","a","b","l","e"," ","b","u","s","i","n","e","s","s","e",
        "s","."," ","E","v","e","r","y"," ","a","c","t","i","o","n"," ","c","o","n","t","r","i","b",
        "u","t","e","s"," ","t","o"," ","a"," ","h","e","a","l","t","h","i","e","r"," ","p","l","a",
        "n","e","t",".">>,
    author |-> <<"Green Living Team">>,
    category |-> <<"Environment">>,
    tags |-> << <<"s","u","s","t","a","i","n","a","b","i","l","i","t","y">>,
              <<"e","c","o","-","f","r","i","e","n","d","l","y">>,
              <<"g","r","e","e","n"," ","l","i","v","i","n","g">> >> ]

\* sample_docs[13]: "The Power of Reading"
SampleDoc14 ==
  [ title |->
      <<"T","h","e"," ","P","o","w","e","r"," ","o","f"," ","R","e","a","d","i","n","g">>,
    content |->
      <<"R","e","a","d","i","n","g"," ","b","o","o","k","s"," ","e","x","p","a","n","d","s"," ","k",
        "n","o","w","l","e","d","g","e",","," ","i","m","p","r","o","v","e","s"," ","v","o","c","a",
        "b","u","l","a","r","y",","," ","a","n","d"," ","e","n","h","a","n","c","e","s"," ","c","r",
        "i","t","i","c","a","l"," ","t","h","i","n","k","i","n","g"," ","s","k","i","l","l","s",".",
        " ","W","h","e","t","h","e","r"," ","f","i","c","t","i","o","n"," ","o","r"," ","n","o","n",
        "-","f","i","c","t","i","o","n",","," ","b","o","o","k","s"," ","p","r","o","v","i","d","e",
        " ","e","n","t","e","r","t","a","i","n","m","e","n","t",","," ","e","d","u","c","a","t","i",
        "o","n",","," ","a","n","d"," ","p","e","r","s","o","n","a","l"," ","g","r","o","w","t","h",
        " ","o","p","p","o","r","t","u","n","i","t","i","e","s","."," ","M","a","k","e"," ","r","e",
        "a","d","i","n","g"," ","a"," ","d","a","i","l","y"," ","h","a","b","i","t",".">>,
    author |-> <<"Library Association">>,
    category |-> <<"Education">>,
    tags |-> << <<"r","e","a","d","i","n","g">>,
              <<"b","o","o","k","s">>,
              <<"e","d","u","c","a","t","i","o","n">> >> ]

\* sample_docs[14]: "Coding Best Practices"
SampleDoc15 ==
  [ title |->
      <<"C","o","d","i","n","g"," ","B","e","s","t"," ","P","r","a","c","t","i","c","e","s">>,
    content |->
      <<"W","r","i","t","i","n","g"," ","c","l","e","a","n",","," ","m","a","i","n","t","a","i","n",
        "a","b","l","e"," ","c","o","d","e"," ","i","s"," ","e","s","s","e","n","t","i","a","l"," ",
        "f","o","r"," ","s","o","f","t","w","a","r","e"," ","d","e","v","e","l","o","p","m","e","n",
        "t","."," ","U","s","e"," ","m","e","a","n","i","n","g","f","u","l"," ","v","a","r","i","a",
        "b","l","e"," ","n","a","m","e","s",","," ","w","r","i","t","e"," ","c","o","m","m","e","n",
        "t","s",","," ","f","o","l","l","o","w"," ","c","o","d","i","n","g"," ","s","t","a","n","d",
        "a","r","d","s",","," ","a","n","d"," ","t","e","s","t"," ","y","o","u","r"," ","c","o","d",
        "e"," ","r","e","g","u","l","a","r","l","y","."," ","C","o","d","e"," ","r","e","v","i","e",
        "w"," ","a","n","d"," ","r","e","f","a","c","t","o","r","i","n","g"," ","i","m","p","r","o",
        "v","e"," ","c","o","d","e"," ","q","u","a","l","i","t","y"," ","o","v","e","r"," ","t","i",
        "m","e",".">>,
    author |-> <<"Tech Team">>,
    category |-> <<"Technology">>,
    tags |-> << <<"c","o","d","i","n","g">>,
              <<"p","r","o","g","r","a","m","m","i","n","g">>,
              <<"b","e","s","t"," ","p","r","a","c","t","i","c","e","s">> >> ]

\* sample_docs[15]: "Travel Safety Tips"
SampleDoc16 ==
  [ title |->
      <<"T","r","a","v","e","l"," ","S","a","f","e","t","y"," ","T","i","p","s">>,
    content |->
      <<"T","r","a","v","e","l","i","n","g"," ","s","a","f","e","l","y"," ","r","e","q","u","i","r",
        "e","s"," ","p","r","e","p","a","r","a","t","i","o","n"," ","a","n","d"," ","a","w","a","r",
        "e","n","e","s","s","."," ","R","e","s","e","a","r","c","h"," ","y","o","u","r"," ","d","e",
        "s","t","i","n","a","t","i","o","n",","," ","k","e","e","p"," ","c","o","p","i","e","s"," ",
        "o","f"," ","i","m","p","o","r","t","a","n","t"," ","d","o","c","u","m","e","n","t","s",",",
        " ","s","t","a","y"," ","a","l","e","r","t"," ","i","n"," ","c","r","o","w","d","e","d"," ",
        "a","r","e","a","s",","," ","a","n","d"," ","t","r","u","s","t"," ","y","o","u","r"," ","i",
        "n","s","t","i","n","c","t","s","."," ","T","r","a","v","e","l"," ","i","n","s","u","r","a",
        "n","c","e"," ","p","r","o","v","i","d","e","s"," ","a","d","d","i","t","i","o","n","a","l",
        " ","p","e","a","c","e"," ","o","f"," ","m","i","n","d",".">>,
    author |-> <<"Travel Safety Council">>,
    category |-> <<"Travel">>,
    tags |-> << <<"t","r","a","v","e","l">>,
              <<"s","a","f","e","t","y">>,
              <<"t","i","p","s">> >> ]

sample_docs ==
  << SampleDoc1,
     SampleDoc2,
     SampleDoc3,
     SampleDoc4,
     SampleDoc5,
     SampleDoc6,
     SampleDoc7,
     SampleDoc8,
     SampleDoc9,
     SampleDoc10,
     SampleDoc11,
     SampleDoc12,
     SampleDoc13,
     SampleDoc14,
     SampleDoc15,
     SampleDoc16 >>
Msg_DocumentWithID ==
  <<"D","o","c","u","m","e","n","t"," ","w","i","t","h"," ","I","D"," ">>

Msg_NotFound ==
  <<" ","n","o","t"," ","f","o","u","n","d">>

Msg_Document ==
  <<"D","o","c","u","m","e","n","t"," ","'">>

Msg_Added ==
  <<"'"," ","a","d","d","e","d"," ","s","u","c","c","e","s","s","f","u","l","l","y"," ","w","i",
    "t","h"," ","I","D"," ">>

Ellipsis ==
  <<".",".",".">>

\* pieces of the mixed-case, punctuated texts
RichPieces ==
  { <<"G","o","o","d">>,
    <<"b","a","d">>,
    <<"t","h","e">>,
    <<"a">>,
    <<" ">>,
    <<"!">>,
    <<"_">> }

\* words of the plain texts
PlainWords ==
  { <<"s","u","n"," ">>,
    <<"i","c","e"," ">>,
    <<"G","o","o","d"," ">> }

\* fixed example texts
ExampleTexts ==
  { <<"t","h","e"," ","t","h","e"," ","t","h","e"," ","a"," ","a">>,
    <<"b","a","d"," ","s","u","n",",","\t","i","c","e">>,
    <<"I"," ","l","o","v","e"," ","A","I",".","\n","A","I"," ","i","s"," ","g","r","e","a","t",
      "!">>,
    <<"-"," ","!">>,
    <<"G","o","o","d","b","a","d"," ","a">>,
    <<"b","a","b","y"," ","b","a","b","y"," ","a"," ","a"," ","a"," ","a",".">>,
    <<"b","a","b","y"," ","b","a","b","y"," ","b","a","b","y"," ","a"," ","a">>,
    <<"b","a","n","a","n","a"," ","b","a","b","y"," ","a"," ","a","?">>,
    <<"A"," ","b","a","n","a","n","a",".">>,
    <<"b","e","a","u","t","i","f","u","l">>,
    <<"O","h","!"," ","R","e","a","l","l","y","?">> }

\* the queries of search_documents
Queries ==
  { <<>>,
    <<"t">>,
    <<"Z","Z">>,
    <<"e","n","e","r","g","y">>,
    <<"Z","o","o",",">> }

\* the ids of analyze_document and get_document_info
LookupIds ==
  { <<"1","6">>,
    <<"1","7">>,
    <<"0","1">>,
    <<"9","9">> }

SpecText ==
  <<"t","h","e"," ","t","h","e"," ","t","h","e"," ","a"," ","a">>

AddInput1 ==
  [ title |-> <<"T">>,
    content |->
      <<>>,
    author |-> <<>>,
    category |-> <<>>,
    tags |-> <<>> ]

AddInput2 ==
  [ title |-> <<"Z","e","b","r","a">>,
    content |->
      <<"G","r","e","a","t"," ","Z","o","o",","," ","b","a","d"," ","z","o","o","!">>,
    author |-> <<"Ann">>,
    category |-> <<"Animals">>,
    tags |-> << << <<"Z","Z"," ","t","o","p">>, <<"E","n","e","r","g","y">> >> >> ]

\* the arguments of the add_document tool; tags is None or a list
AddInputs == { AddInput1, AddInput2 }

\* the characters of the words handed to count_syllables
WordLetters == { "a", "e", "y", "c", "k", "E" }
(***************************************************************************)
(* dict: a sequence of <<key, value>> entries in insertion order.          *)
(***************************************************************************)
DictHas(d, k) == \E i \in DOMAIN d : d[i][1] = k

DictIndex(d, k) == CHOOSE i \in DOMAIN d : d[i][1] = k

\* d.get(k): None when k is no key
DictGet(d, k) == IF DictHas(d, k) THEN <<d[DictIndex(d, k)][2]>> ELSE <<>>

\* mutant of DictSet: a new key goes first
DictSet_newFirst(d, k, v) ==
  IF DictHas(d, k) THEN [d EXCEPT ![DictIndex(d, k)] = <<k, v>>]
  ELSE <<<<k, v>>>> \o d

\* d[k] = v: an existing key keeps its place, a new key goes last
DictSet(d, k, v) ==
  IF DictHas(d, k) THEN [d EXCEPT ![DictIndex(d, k)] = <<k, v>>]
  ELSE Append(d, <<k, v>>)

\* list(d.values())
DictValues(d) == [ i \in 1..Len(d) |-> d[i][2] ]

(***************************************************************************)
(* DocumentStore.  Both callers of add_document (the seeding loop and the  *)
(* add_document tool) pass a doc_data that holds all five keys.            *)
(***************************************************************************)
NewRecord(id, doc_data, t) ==
  [ id |-> id,
    title |-> doc_data.title,
    content |-> doc_data.content,
    author |-> doc_data.author,
    category |-> doc_data.category,
    tags |-> doc_data.tags,
    created_at |-> t ]

\* mutant of add_document: the counter is not incremented
DocumentStore_add_document_noIncrement(docs, nid, doc_data, t) ==
  [ documents |-> DictSet(docs, Str(nid), NewRecord(Str(nid), doc_data, t)),
    next_id |-> nid,
    doc_id |-> Str(nid) ]

\* the store after add_document(doc_data) at time t, and the id it returns
DocumentStore_add_document(docs, nid, doc_data, t) ==
  LET id == Str(nid)
  IN  [ documents |-> DictSet(docs, id, NewRecord(id, doc_data, t)),
        next_id |-> nid + 1,
        doc_id |-> id ]

\* the store after the first k sample documents have been added at time t
RECURSIVE DocumentStore_initialize_sample_documents(_, _)
DocumentStore_initialize_sample_documents(k, t) ==
  IF k = 0 THEN [ documents |-> <<>>, next_id |-> 1, doc_id |-> <<>> ]
  ELSE LET s == DocumentStore_initialize_sample_documents(k - 1, t)
       IN  DocumentStore_add_document(s.documents, s.next_id, sample_docs[k], t)

\* DocumentStore(): the module-level document_store
DocumentStore_init == DocumentStore_initialize_sample_documents(Len(sample_docs), 0)

\* mutant of get_document: looks the id up by its numeric value
DocumentStore_get_document_byValue(docs, id) ==
  IF id # <<>> /\ \A i \in 1..Len(id) : id[i] \in DigitSet
  THEN DictGet(docs, Str(DecimalValue(id)))
  ELSE DictGet(docs, id)

DocumentStore_get_document(docs, id) == DictGet(docs, id)

\* the condition of the if inside the loop of search_documents
SearchHit(query, doc) ==
  \/ Contains(query, Lower(doc.title))
  \/ Contains(query, Lower(doc.content))
  \/ \E i \in DOMAIN doc.tags : Contains(query, Lower(doc.tags[i]))

\* mutant of search_documents: the query is not lowercased
DocumentStore_search_documents_rawQuery(docs, query) ==
  SelectSeq(DictValues(docs), LAMBDA doc : SearchHit(query, doc))

DocumentStore_search_documents(docs, query) ==
  LET q == Lower(query)
  IN  SelectSeq(DictValues(docs), LAMBDA doc : SearchHit(q, doc))

DocumentStore_get_all_documents(docs) == DictValues(docs)

(***************************************************************************)
(* TextAnalyzer.                                                           *)
(***************************************************************************)
\* the characters re.sub(r'[^\w\s]', '', ...) keeps
KeptChars == WordChars \cup Whitespace

\* re.sub(r'[^\w\s]', '', text.lower())
TextAnalyzer_clean_text(t) == SelectSeq(Lower(t), LAMBDA c : c \in KeptChars)

\* str.split() from position i on: the maximal runs of non-whitespace
\* characters, left to right
RECURSIVE SplitFrom(_, _)
SplitFrom(s, i) ==
  LET n == Len(s)
  IN  IF \A j \in i..n : s[j] \in Whitespace THEN <<>>
      ELSE LET b == CHOOSE j \in i..n :
                      s[j] \notin Whitespace /\ \A k \in i..(j - 1) : s[k] \in Whitespace
               e == CHOOSE j \in b..n :
                      /\ (j = n \/ s[j + 1] \in Whitespace)
                      /\ \A k \in b..j : s[k] \notin Whitespace
           IN  <<SubSeq(s, b, e)>> \o SplitFrom(s, e + 1)

\* str.split()
Split(s) == SplitFrom(s, 1)

\* [word for word in clean_text.split() if word]
TextAnalyzer_get_words(t) ==
  SelectSeq(Split(TextAnalyzer_clean_text(t)), LAMBDA word : word # <<>>)

\* mutant of SentimentLabel: the first comparison is >=
SentimentLabel_ge(p, n, total) ==
  IF p * total >= n * total THEN "positive"
  ELSE IF n * total > p * total THEN "negative"
  ELSE "neutral"

\* the if/elif/else of analyze_sentiment on positive_score = p / total and
\* negative_score = n / total (two quotients by the same total > 0)
SentimentLabel(p, n, total) ==
  IF p * total > n * total THEN "positive"
  ELSE IF n * total > p * total THEN "negative"
  ELSE "neutral"

\* the value analyze_sentiment returns for the counts it has made; the
\* neutral score round(1 - positive_score - negative_score, 3) is taken on
\* the exact quotient (total - positive - negative) / total; where that is 0
\* the double can be a rounding error below 0 and the result is then -0.0,
\* the same number
SentimentResult(positive_count, negative_count, total_words) ==
  IF total_words = 0
  THEN [ sentiment |-> "neutral", confidence |-> 0,
         scores |-> [ positive |-> 0, negative |-> 0, neutral |-> 0 ] ]
  ELSE [ sentiment |-> SentimentLabel(positive_count, negative_count, total_words),
         confidence |->
           CASE SentimentLabel(positive_count, negative_count, total_words) = "positive"
                  -> Round3(positive_count, total_words)
             [] SentimentLabel(positive_count, negative_count, total_words) = "negative"
                  -> Round3(negative_count, total_words)
             [] OTHER -> 500,
         scores |-> [ positive |-> Round3(positive_count, total_words),
                      negative |-> Round3(negative_count, total_words),
                      neutral |-> Round3(total_words - positive_count - negative_count,
                                         total_words) ] ]

\* analyze_sentiment once words = get_words(text) is known
SentimentOfWords(words) ==
  SentimentResult(Len(SelectSeq(words, LAMBDA word : word \in POSITIVE_WORDS)),
                  Len(SelectSeq(words, LAMBDA word : word \in NEGATIVE_WORDS)),
                  Len(words))

TextAnalyzer_analyze_sentiment(t) == SentimentOfWords(TextAnalyzer_get_words(t))

\* mutant of KeepWord: only the length is tested
KeepWord_lengthOnly(word) == Len(word) > 2

\* the filter of extract_keywords
KeepWord(word) == word \notin STOP_WORDS /\ Len(word) > 2

\* Counter(iterable): each element's count, keyed in order of first occurrence
RECURSIVE Counter(_)
Counter(ws) ==
  IF ws = <<>> THEN <<>>
  ELSE LET c == Counter(SubSeq(ws, 1, Len(ws) - 1))
           w == ws[Len(ws)]
           old == DictGet(c, w)
       IN  DictSet(c, w, (IF old = <<>> THEN 0 ELSE old[1]) + 1)

\* sorted(items, key=itemgetter(1), reverse=True): a stable sort, so items of
\* equal count keep their order
RECURSIVE SortedByCountDesc(_)
SortedByCountDesc(items) ==
  IF items = <<>> THEN <<>>
  ELSE LET s == SortedByCountDesc(SubSeq(items, 1, Len(items) - 1))
           e == items[Len(items)]
           p == Cardinality({ i \in DOMAIN s : s[i][2] >= e[2] })
       IN  SubSeq(s, 1, p) \o <<e>> \o SubSeq(s, p + 1, Len(s))

\* mutant of most_common: sorted(...)[:n], where a negative n drops the last -n items
most_common_slice(counter, n) ==
  IF n >= 0 THEN Prefix(SortedByCountDesc(counter), n)
  ELSE Prefix(SortedByCountDesc(counter), Len(counter) + n)

\* Counter.most_common(n) for an int n: heapq.nlargest(n, items, key=count)
most_common(counter, n) ==
  IF n <= 0 THEN <<>> ELSE Prefix(SortedByCountDesc(counter), n)

\* one entry of the keywords list
Keyword(item, total_words) ==
  [ word |-> item[1],
    frequency |-> item[2],
    relevance |-> IF total_words > 0 THEN Round3(item[2], total_words) ELSE 0 ]

\* the loop over top_keywords
KeywordList(top_keywords, total_words) ==
  [ i \in 1..Len(top_keywords) |-> Keyword(top_keywords[i], total_words) ]

\* extract_keywords once filtered_words is known
KeywordsOfFiltered(filtered_words, limit) ==
  KeywordList(most_common(Counter(filtered_words), limit), Len(filtered_words))

TextAnalyzer_extract_keywords(t, limit) ==
  KeywordsOfFiltered(SelectSeq(TextAnalyzer_get_words(t), KeepWord), limit)


\* vowels = 'aeiouy'
vowels == { "a", "e", "i", "o", "u", "y" }

\* the variables of count_syllables' loop after the first k characters of word
RECURSIVE SyllableLoop(_, _)
SyllableLoop(word, k) ==
  IF k = 0 THEN [ syllable_count |-> 0, previous_was_vowel |-> FALSE ]
  ELSE LET s == SyllableLoop(word, k - 1)
       IN  IF word[k] \in vowels
           THEN [ syllable_count |-> IF ~s.previous_was_vowel
                                     THEN s.syllable_count + 1
                                     ELSE s.syllable_count,
                  previous_was_vowel |-> TRUE ]
           ELSE [ syllable_count |-> s.syllable_count,
                  previous_was_vowel |-> FALSE ]

\* word.endswith('e')
EndsWithE(word) == Len(word) >= 1 /\ word[Len(word)] = "e"

\* the silent-e step and the return of count_syllables, on the lowercased
\* word and the loop's syllable_count
SyllableReturn(word, syllable_count) ==
  LET c == IF EndsWithE(word) /\ syllable_count > 1
           THEN syllable_count - 1 ELSE syllable_count
  IN  IF c >= 1 THEN c ELSE 1

\* count_syllables after word = word.lower()
SyllablesOfLowered(word) ==
  SyllableReturn(word, SyllableLoop(word, Len(word)).syllable_count)

\* mutant of TextAnalyzer_count_syllables: every vowel counts, not every run
TextAnalyzer_count_syllables_everyVowel(word) ==
  SyllableReturn(Lower(word), Len(SelectSeq(Lower(word), LAMBDA c : c \in vowels)))

TextAnalyzer_count_syllables(word) == SyllablesOfLowered(Lower(word))

\* the characters [.!?] matches
Terminators == { ".", "!", "?" }

\* re.split(r'[.!?]+', s) from position i on: the pieces between the maximal
\* runs of terminators, the empty pieces at either end included
RECURSIVE ReSplitFrom(_, _)
ReSplitFrom(s, i) ==
  LET n == Len(s)
  IN  IF \A j \in i..n : s[j] \notin Terminators THEN <<SubSeq(s, i, n)>>
      ELSE LET b == CHOOSE j \in i..n :
                      s[j] \in Terminators /\ \A k \in i..(j - 1) : s[k] \notin Terminators
               e == CHOOSE j \in b..n :
                      /\ (j = n \/ s[j + 1] \notin Terminators)
                      /\ \A k \in b..j : s[k] \in Terminators
           IN  <<SubSeq(s, i, b - 1)>> \o ReSplitFrom(s, e + 1)

\* str.strip()
Strip(s) ==
  IF \A j \in 1..Len(s) : s[j] \in Whitespace THEN <<>>
  ELSE SubSeq(s,
              CHOOSE j \in 1..Len(s) :
                s[j] \notin Whitespace /\ \A k \in 1..(j - 1) : s[k] \in Whitespace,
              CHOOSE j \in 1..Len(s) :
                s[j] \notin Whitespace /\ \A k \in (j + 1)..Len(s) : s[k] \in Whitespace)

\* [s.strip() for s in sentences if s.strip()]
StrippedNonEmpty(sentences) ==
  SelectSeq([ i \in 1..Len(sentences) |-> Strip(sentences[i]) ], LAMBDA x : x # <<>>)

TextAnalyzer_get_sentences(t) == StrippedNonEmpty(ReSplitFrom(t, 1))

\* sum(...) over a list of ints
RECURSIVE Sum(_)
Sum(xs) == IF xs = <<>> THEN 0 ELSE xs[1] + Sum(Tail(xs))

\* what a float division by zero raises
ZeroDivisionError == [ exception |-> "ZeroDivisionError" ]

\* The metrics of calculate_readability are floats rounded to 2 decimals and
\* are held in hundredths.  The code computes them in doubles, whose value
\* differs from the exact one by rounding error: where the exact value lies
\* half way between two hundredths, or on a bucket's threshold, the double
\* may fall on either side, and both results are outcomes.

\* num / den rounded to an int, for ints num >= 0 and den > 0
RoundDiv(num, den) ==
  LET q == num \div den
      r == num % den
  IN  IF 2 * r < den THEN { q }
      ELSE IF 2 * r > den THEN { q + 1 }
      ELSE { q, q + 1 }

\* round(num / den, 2) in hundredths, for ints num >= 0 and den > 0
Round2(num, den) == RoundDiv(100 * num, den)

\* mutant of ClampedRound2: no clamp
ClampedRound2_noClamp(num, den, hasMax) ==
  IF num >= 0 THEN RoundDiv(num, den) ELSE { -x : x \in RoundDiv(-num, den) }

\* round(max(0, min(100, x)), 2), or round(max(0, x), 2) if not hasMax, in
\* hundredths, for the score x = num / (100 den)
ClampedRound2(num, den, hasMax) ==
  IF num <= 0 THEN { 0 }
  ELSE IF hasMax /\ num >= 10000 * den THEN { 10000 }
  ELSE RoundDiv(num, den)

\* the thresholds of the difficulty buckets and their labels; the last label
\* is the else branch
DifficultyThresholds == <<90, 80, 70, 60, 50, 30>>

DifficultyLabels ==
  <<"very easy", "easy", "fairly easy", "standard", "fairly difficult", "difficult",
    "very difficult">>

\* the if/elif chain on flesch_score = num / den: the first bucket whose
\* threshold the score reaches
Difficulty(num, den) ==
  LET reached == { i \in 1..6 : num >= DifficultyThresholds[i] * den }
      k == IF reached = {} THEN 7
           ELSE CHOOSE i \in reached : \A j \in reached : i <= j
  IN  IF k <= 6 /\ num = DifficultyThresholds[k] * den
      THEN { DifficultyLabels[k], DifficultyLabels[k + 1] }
      ELSE { DifficultyLabels[k] }

\* lines 334-368 of calculate_readability on the totals: with
\* W = total_words, S = total_sentences, Y = total_syllables,
\*   flesch_score = (206835 S W - 1015 W W - 84600 Y S) / (1000 S W)
\*   grade_level  = (390 W W + 11800 Y S - 15590 S W) / (1000 S W)
ReadabilityOfTotals(total_words, total_sentences, total_syllables, total_chars) ==
  IF total_sentences = 0 \/ total_words = 0 THEN { ZeroDivisionError }
  ELSE LET den == 1000 * total_sentences * total_words
           flesch == 206835 * total_sentences * total_words
                     - 1015 * total_words * total_words
                     - 84600 * total_syllables * total_sentences
           grade == 390 * total_words * total_words
                    + 11800 * total_syllables * total_sentences
                    - 15590 * total_sentences * total_words
       IN  { [ flesch_reading_ease |-> f,
               flesch_grade_level |-> g,
               avg_sentence_length |-> a,
               avg_word_length |-> l,
               difficulty |-> d ] :
               f \in ClampedRound2(flesch, den \div 100, TRUE),
               g \in ClampedRound2(grade, den \div 100, FALSE),
               a \in Round2(total_words, total_sentences),
               l \in Round2(total_chars, total_words),
               d \in Difficulty(flesch, den) }

\* what calculate_readability returns for an empty words or sentences list
ReadabilityUnknown ==
  [ flesch_reading_ease |-> 0,
    flesch_grade_level |-> 0,
    avg_sentence_length |-> 0,
    avg_word_length |-> 0,
    difficulty |-> "unknown" ]

\* calculate_readability once words and sentences are known
ReadabilityOf(words, sentences) ==
  IF sentences = <<>> \/ words = <<>> THEN { ReadabilityUnknown }
  ELSE ReadabilityOfTotals(
         Len(words),
         Len(sentences),
         Sum([ i \in 1..Len(words) |-> TextAnalyzer_count_syllables(words[i]) ]),
         Sum([ i \in 1..Len(words) |-> Len(words[i]) ]))

\* the values calculate_readability can return for the text
TextAnalyzer_calculate_readability(t) ==
  ReadabilityOf(TextAnalyzer_get_words(t), TextAnalyzer_get_sentences(t))
(***************************************************************************)
(* Inputs of the tools.                                                    *)
(***************************************************************************)
\* the limits of extract_keywords; 10 is its default
Limits == { -1, 0, 1, 2, 10 }

\* the concatenation of a sequence of strings
RECURSIVE Concat(_)
Concat(ps) == IF ps = <<>> THEN <<>> ELSE ps[1] \o Concat(Tail(ps))

SeqsUpTo(S, n) == UNION { [1..k -> S] : k \in 0..n }

RichTexts == { Concat(ps) : ps \in SeqsUpTo(RichPieces, MaxRichLen) }

PlainTexts == { Concat(ps) : ps \in SeqsUpTo(PlainWords, MaxPlainLen) }

Texts == RichTexts \cup PlainTexts \cup ExampleTexts

\* the words handed to count_syllables
SyllableWords == SeqsUpTo(WordLetters, MaxWordLen)

\* the worker threads of a server that dispatches two requests at once
Workers == { 1, 2 }

(***************************************************************************)
(* The tools, as the server answers them one request at a time.            *)
(***************************************************************************)
concVars == <<pc, arg, doc_id, tmp, tret>>

\* time passes
Tick ==
  /\ now < MaxClock
  /\ now' = now + 1
  /\ UNCHANGED <<documents, next_id, call, ret, returned, text, concVars>>

\* {"error": f"Document with ID {document_id} not found"}
ErrorPayload(id) == [ error |-> Msg_DocumentWithID \o id \o Msg_NotFound ]

\* `not document` for the Optional[Dict] get_document returns: a stored record
\* has seven keys, so only None is falsy
NotDocument(document) == document = <<>>

add_document ==
  /\ Len(returned) < Len(sample_docs) + MaxUserAdds
  /\ \E inp \in AddInputs :
       LET tags == IF inp.tags = <<>> THEN <<>> ELSE inp.tags[1]
           doc_data == [ title |-> inp.title, content |-> inp.content,
                         author |-> inp.author, category |-> inp.category,
                         tags |-> tags ]
           r == DocumentStore_add_document(documents, next_id, doc_data, now)
       IN  /\ documents' = r.documents
           /\ next_id' = r.next_id
           /\ returned' = Append(returned, r.doc_id)
           /\ call' = [ op |-> "add_document", title |-> inp.title,
                        content |-> inp.content, tags |-> tags ]
           /\ ret' = [ document_id |-> r.doc_id,
                       title |-> inp.title,
                       status |-> "added",
                       message |-> Msg_Document \o inp.title \o Msg_Added \o r.doc_id ]
  /\ UNCHANGED <<now, text, concVars>>

\* the payload of analyze_document for a stored document; its readability
\* and stats entries are functions of the content alone and are not carried
AnalysisPayload(id, document, timestamp) ==
  [ document_id |-> id,
    title |-> document.title,
    author |-> document.author,
    category |-> document.category,
    sentiment |-> TextAnalyzer_analyze_sentiment(document.content),
    keywords |-> TextAnalyzer_extract_keywords(document.content, 10),
    timestamp |-> timestamp ]

\* what analyze_document returns once document = get_document(id) is known
AnalyzeResponse(id, document, timestamp) ==
  IF NotDocument(document) THEN ErrorPayload(id)
  ELSE AnalysisPayload(id, document[1], timestamp)

analyze_document ==
  /\ \E id \in LookupIds :
       /\ call' = [ op |-> "analyze_document", document_id |-> id ]
       /\ ret' = AnalyzeResponse(id, DocumentStore_get_document(documents, id), now)
  /\ UNCHANGED <<documents, next_id, now, returned, text, concVars>>

\* what get_document_info returns once document = get_document(id) is known
InfoResponse(id, document) ==
  IF NotDocument(document) THEN ErrorPayload(id) ELSE document[1]

get_document_info ==
  /\ \E id \in LookupIds :
       /\ call' = [ op |-> "get_document_info", document_id |-> id ]
       /\ ret' = InfoResponse(id, DocumentStore_get_document(documents, id))
  /\ UNCHANGED <<documents, next_id, now, returned, text, concVars>>

\* doc["content"][:200] + "..." if len(doc["content"]) > 200 else doc["content"]
Snippet(content) ==
  IF Len(content) > 200 THEN Prefix(content, 200) \o Ellipsis ELSE content

\* one entry of the list search_documents returns
SearchEntry(doc) ==
  [ document_id |-> doc.id,
    title |-> doc.title,
    author |-> doc.author,
    category |-> doc.category,
    tags |-> doc.tags,
    snippet |-> Snippet(doc.content) ]

\* the list comprehension of the search_documents tool over results
SearchResponse(results) == [ i \in 1..Len(results) |-> SearchEntry(results[i]) ]

search_documents ==
  /\ \E query \in Queries :
       /\ call' = [ op |-> "search_documents", query |-> query ]
       /\ ret' = SearchResponse(DocumentStore_search_documents(documents, query))
  /\ UNCHANGED <<documents, next_id, now, returned, text, concVars>>

\* one entry of the list list_documents returns
ListEntry(doc) ==
  [ document_id |-> doc.id,
    title |-> doc.title,
    author |-> doc.author,
    category |-> doc.category,
    tags |-> doc.tags,
    created_at |-> doc.created_at ]

\* the list comprehension of the list_documents tool over documents
ListResponse(docs) == [ i \in 1..Len(docs) |-> ListEntry(docs[i]) ]

list_documents ==
  /\ call' = [ op |-> "list_documents" ]
  /\ ret' = ListResponse(DocumentStore_get_all_documents(documents))
  /\ UNCHANGED <<documents, next_id, now, returned, text, concVars>>

get_sentiment ==
  /\ call' = [ op |-> "get_sentiment", text |-> text ]
  /\ ret' = TextAnalyzer_analyze_sentiment(text)
  /\ UNCHANGED <<documents, next_id, now, returned, text, concVars>>

extract_keywords ==
  /\ \E limit \in Limits :
       /\ call' = [ op |-> "extract_keywords", text |-> text, limit |-> limit ]
       /\ ret' = TextAnalyzer_extract_keywords(text, limit)
  /\ UNCHANGED <<documents, next_id, now, returned, text, concVars>>

get_readability_score ==
  /\ call' = [ op |-> "get_readability_score", text |-> text ]
  /\ ret' \in TextAnalyzer_calculate_readability(text)
  /\ UNCHANGED <<documents, next_id, now, returned, text, concVars>>

\* TextAnalyzer.count_syllables called on the word
count_syllables ==
  /\ call' = [ op |-> "count_syllables", word |-> text ]
  /\ ret' = TextAnalyzer_count_syllables(text)
  /\ UNCHANGED <<documents, next_id, now, returned, text, concVars>>

(***************************************************************************)
(* add_document of two requests dispatched to two threads: the statements  *)
(* of DocumentStore.add_document interleave, and the read and the write of *)
(* `self.next_id += 1` are separate steps.                                 *)
(***************************************************************************)
\* the add_document tool builds doc_data and calls document_store.add_document
add_document_call(w) ==
  /\ pc[w] = "idle"
  /\ \E inp \in AddInputs :
       arg' = [ arg EXCEPT ![w] =
                  [ title |-> inp.title, content |-> inp.content,
                    author |-> inp.author, category |-> inp.category,
                    tags |-> IF inp.tags = <<>> THEN <<>> ELSE inp.tags[1] ] ]
  /\ pc' = [ pc EXCEPT ![w] = "L162" ]
  /\ UNCHANGED <<documents, next_id, now, call, ret, returned, text, doc_id, tmp, tret>>

\* doc_id = str(self.next_id)
add_document_L162(w) ==
  /\ pc[w] = "L162"
  /\ doc_id' = [ doc_id EXCEPT ![w] = Str(next_id) ]
  /\ pc' = [ pc EXCEPT ![w] = "L163" ]
  /\ UNCHANGED <<documents, next_id, now, call, ret, returned, text, arg, tmp, tret>>

\* self.documents[doc_id] = {...}
add_document_L163(w) ==
  /\ pc[w] = "L163"
  /\ documents' = DictSet(documents, doc_id[w], NewRecord(doc_id[w], arg[w], now))
  /\ pc' = [ pc EXCEPT ![w] = "L172_load" ]
  /\ UNCHANGED <<next_id, now, call, ret, returned, text, arg, doc_id, tmp, tret>>

\* self.next_id += 1: the read
add_document_L172_load(w) ==
  /\ pc[w] = "L172_load"
  /\ tmp' = [ tmp EXCEPT ![w] = next_id ]
  /\ pc' = [ pc EXCEPT ![w] = "L172_store" ]
  /\ UNCHANGED <<documents, next_id, now, call, ret, returned, text, arg, doc_id, tret>>

\* self.next_id += 1: the write
add_document_L172_store(w) ==
  /\ pc[w] = "L172_store"
  /\ next_id' = tmp[w] + 1
  /\ pc' = [ pc EXCEPT ![w] = "L173" ]
  /\ UNCHANGED <<documents, now, call, ret, returned, text, arg, doc_id, tmp, tret>>

\* return doc_id
add_document_L173(w) ==
  /\ pc[w] = "L173"
  /\ tret' = [ tret EXCEPT ![w] = doc_id[w] ]
  /\ returned' = Append(returned, doc_id[w])
  /\ pc' = [ pc EXCEPT ![w] = "done" ]
  /\ UNCHANGED <<documents, next_id, now, call, ret, text, arg, doc_id, tmp>>

(***************************************************************************)
(* Specifications.                                                         *)
(***************************************************************************)
\* the ids the seeding loop's add_document calls returned
SeedReturned ==
  [ k \in 1..Len(sample_docs) |-> DocumentStore_initialize_sample_documents(k, 0).doc_id ]

InitWith(t) ==
  /\ documents = DocumentStore_init.documents
  /\ next_id = DocumentStore_init.next_id
  /\ now = 0
  /\ call = [ op |-> "none" ]
  /\ ret = <<>>
  /\ returned = SeedReturned
  /\ text = t
  /\ pc = [ w \in Workers |-> "idle" ]
  /\ arg = [ w \in Workers |-> <<>> ]
  /\ doc_id = [ w \in Workers |-> <<>> ]
  /\ tmp = [ w \in Workers |-> 0 ]
  /\ tret = [ w \in Workers |-> <<>> ]

\* the server after `document_store = DocumentStore()`
Init == InitWith(SpecText)

Next ==
  \/ Tick
  \/ add_document
  \/ analyze_document
  \/ get_document_info
  \/ search_documents
  \/ list_documents
  \/ get_sentiment
  \/ extract_keywords
  \/ get_readability_score

Spec == Init /\ [][Next]_vars

\* the TextAnalyzer tools on every text of Texts
AnalyzerInit == \E t \in Texts : InitWith(t)

\* one tool call on the text
AnalyzerNext ==
  /\ call.op = "none"
  /\ \/ get_sentiment
     \/ extract_keywords
     \/ get_readability_score

AnalyzerSpec == AnalyzerInit /\ [][AnalyzerNext]_vars

\* count_syllables on every word of SyllableWords
SyllableInit == \E word \in SyllableWords : InitWith(word)

\* one call on the word
SyllableNext ==
  /\ call.op = "none"
  /\ count_syllables

SyllableSpec == SyllableInit /\ [][SyllableNext]_vars

\* two add_document requests on two threads
ConcNext ==
  \/ Tick
  \/ \E w \in Workers :
       \/ add_document_call(w)
       \/ add_document_L162(w)
       \/ add_document_L163(w)
       \/ add_document_L172_load(w)
       \/ add_document_L172_store(w)
       \/ add_document_L173(w)

ConcSpec == Init /\ [][ConcNext]_vars

(***************************************************************************)
(* Properties.                                                             *)
(***************************************************************************)
\* the number of sample documents the constructor adds
SeedCount == Len(sample_docs)

\* the keys of the store, as a set
StoreKeys == { documents[i][1] : i \in DOMAIN documents }

IsError(r) == DOMAIN r = { "error" }

\* C1: ids are allocated sequentially. The n-th add_document call, counting
\* the 16 seed adds, returns the base-10 numeral of n and stores the record
\* under that key; a fresh store holds exactly "1".."16", the first user add
\* returns "17", and no id is returned twice.
C1_SequentialIds ==
  /\ Len(returned) >= SeedCount
  /\ \A n \in 1..Len(returned) :
       /\ IsNumeral(returned[n])
       /\ DecimalValue(returned[n]) = n
       /\ DictHas(documents, returned[n])
       /\ DocumentStore_get_document(documents, returned[n])[1].id = returned[n]
  /\ \A m, n \in 1..Len(returned) : m # n => returned[m] # returned[n]
  /\ StoreKeys = { returned[n] : n \in 1..Len(returned) }
  /\ Len(documents) = Len(returned)
  /\ next_id = Len(returned) + 1
  /\ (Len(returned) = SeedCount) => (StoreKeys = { Str(n) : n \in 1..16 })
  /\ (Len(returned) > SeedCount) => (returned[SeedCount + 1] = <<"1", "7">>)
  /\ (call.op = "add_document") => (ret.document_id = returned[Len(returned)])

\* two user adds have returned "17" and then "18"
C1_Witness ==
  /\ call.op = "add_document"
  /\ Len(returned) = SeedCount + 2
  /\ returned[SeedCount + 1] = <<"1", "7">>
  /\ ret.document_id = <<"1", "8">>

\* C2: round trip and immutability. The record add_document stores under the
\* id it returns holds that id, the title and content given and the time of
\* the call, and every step of every tool leaves each stored record
\* retrievable under its id, unchanged.
C2_RoundTripImmutable ==
  [][ /\ \A i \in DOMAIN documents :
           DocumentStore_get_document(documents', documents[i][1]) = <<documents[i][2]>>
      /\ \A i \in DOMAIN documents' : documents'[i][2].id = documents'[i][1]
      /\ (returned' # returned) =>
           /\ call'.op = "add_document"
           /\ DocumentStore_get_document(documents', ret'.document_id) # <<>>
           /\ DocumentStore_get_document(documents', ret'.document_id)[1].id
                = ret'.document_id
           /\ DocumentStore_get_document(documents', ret'.document_id)[1].title
                = call'.title
           /\ DocumentStore_get_document(documents', ret'.document_id)[1].content
                = call'.content
           /\ DocumentStore_get_document(documents', ret'.document_id)[1].created_at
                = now
    ]_vars

\* after a second add and a clock tick, get_document_info("17") still returns
\* the first user document as it was added
C2_Witness ==
  /\ call.op = "get_document_info"
  /\ call.document_id = <<"1", "7">>
  /\ Len(documents) = SeedCount + 2
  /\ ~IsError(ret)
  /\ ret.id = <<"1", "7">>
  /\ ret.title = AddInput2.title
  /\ ret.content = AddInput2.content
  /\ ret.created_at < now

\* C3: get_all_documents returns every stored document once, in insertion
\* order, with ids numerically strictly increasing from "1", and as many
\* documents as adds were performed (16 seed adds plus the user adds).
C3_ListAllInOrder ==
  /\ Len(DocumentStore_get_all_documents(documents)) = Len(returned)
  /\ \A k \in 1..Len(returned) :
       /\ DocumentStore_get_all_documents(documents)[k].id = returned[k]
       /\ DocumentStore_get_all_documents(documents)[k] = documents[k][2]
       /\ DecimalValue(DocumentStore_get_all_documents(documents)[k].id) = k
  /\ DocumentStore_get_all_documents(documents)[1].id = <<"1">>
  /\ (call.op = "list_documents") =>
       /\ Len(ret) = Len(returned)
       /\ \A k \in 1..Len(ret) :
            /\ ret[k].document_id = returned[k]
            /\ ret[k].title = documents[k][2].title
            /\ k > 1 => DecimalValue(ret[k - 1].document_id) < DecimalValue(ret[k].document_id)

\* list_documents after two user adds returns 18 documents
C3_Witness ==
  /\ call.op = "list_documents"
  /\ Len(ret) = SeedCount + 2
  /\ ret[SeedCount + 2].document_id = <<"1", "8">>

\* lowercase(q) is a substring of s lowercased
InLowered(q, s) ==
  \E i \in 0..(Len(s) - Len(q)) :
    \A j \in 1..Len(q) : LowerChar(s[i + j]) = LowerChar(q[j])

\* the match the search contract states on a stored document
QueryMatches(q, doc) ==
  \/ InLowered(q, doc.title)
  \/ InLowered(q, doc.content)
  \/ \E t \in DOMAIN doc.tags : InLowered(q, doc.tags[t])

\* the positions in the store of the documents a query matches
MatchPositions(q) == { i \in DOMAIN documents : QueryMatches(q, documents[i][2]) }

\* C4: search_documents(q) returns exactly the stored documents for which
\* lowercase(q) occurs in the lowercased title, content or a lowercased tag,
\* each once and in insertion order; the empty query returns every document.
C4_SearchExact ==
  (call.op = "search_documents") =>
    /\ Len(ret) = Cardinality(MatchPositions(call.query))
    /\ \A k \in 1..Len(ret) :
         \E i \in MatchPositions(call.query) :
           /\ ret[k].document_id = documents[i][1]
           /\ ret[k].title = documents[i][2].title
           /\ Cardinality({ j \in MatchPositions(call.query) : j < i }) = k - 1
    /\ (call.query = <<>>) =>
         /\ Len(ret) = Len(DocumentStore_get_all_documents(documents))
         /\ \A k \in 1..Len(ret) :
              ret[k].document_id = DocumentStore_get_all_documents(documents)[k].id

\* the query "energy" finds a user document only through its tag "Energy",
\* next to sample documents, and leaves other documents out
C4_Witness ==
  /\ call.op = "search_documents"
  /\ call.query = <<"e", "n", "e", "r", "g", "y">>
  /\ Len(ret) >= 3
  /\ Len(ret) < Len(documents)
  /\ ret[1].document_id = <<"1">>
  /\ ret[Len(ret)].title = AddInput2.title
  /\ ~InLowered(call.query, AddInput2.title)
  /\ ~InLowered(call.query, AddInput2.content)

LookupOps == { "analyze_document", "get_document_info" }

\* C5: looking up an id that is no key of the store gives an error value.
\* get_document gives the not-found signal, analyze_document and
\* get_document_info return {"error": "Document with ID <id> not found"},
\* for exactly the ids that are not the numeral of an add performed so far
\* ("01" and ids above the maximum are not found), and the failed lookup
\* leaves the documents and the next-id counter unchanged.
C5_NotFoundIsErrorValue ==
  [][ (call'.op \in LookupOps) =>
        /\ IsError(ret') <=>
             ~( /\ IsNumeral(call'.document_id)
                /\ DecimalValue(call'.document_id) \in 1..Len(returned') )
        /\ IsError(ret') <=>
             (DocumentStore_get_document(documents', call'.document_id) = <<>>)
        /\ IsError(ret') =>
             /\ ret'.error = Msg_DocumentWithID \o call'.document_id \o Msg_NotFound
             /\ documents' = documents
             /\ next_id' = next_id
        /\ ~IsError(ret') => ret'.title = documents'[DecimalValue(call'.document_id)][2].title
    ]_vars

\* analyze_document("01") returned the error payload while "1" is stored
C5_Witness ==
  /\ call.op = "analyze_document"
  /\ call.document_id = <<"0", "1">>
  /\ IsError(ret)
  /\ ret.error = <<"D","o","c","u","m","e","n","t"," ","w","i","t","h"," ","I","D"," ",
                   "0","1"," ","n","o","t"," ","f","o","u","n","d">>
  /\ DictHas(documents, <<"1">>)

\* C6: two add_document calls dispatched at once are serialized by the
\* store: whatever the interleaving, the two calls return distinct ids,
\* both documents are in the store afterwards, and the next-id counter has
\* advanced by exactly two.
C6_ConcurrentAddsSerialized ==
  (\A w \in Workers : pc[w] = "done") =>
    /\ tret[1] # tret[2]
    /\ Len(documents) = SeedCount + 2
    /\ next_id = SeedCount + 3
    /\ \A w \in Workers :
         /\ DocumentStore_get_document(documents, tret[w]) # <<>>
         /\ DocumentStore_get_document(documents, tret[w])[1].title = arg[w].title

\* the number of words that are in a lexicon
CountIn(words, lexicon) == Cardinality({ i \in DOMAIN words : words[i] \in lexicon })

\* the lexicon hit counts and the word count of the text a tool was given
PositiveCount == CountIn(TextAnalyzer_get_words(text), POSITIVE_WORDS)

NegativeCount == CountIn(TextAnalyzer_get_words(text), NEGATIVE_WORDS)

TotalWords == Len(TextAnalyzer_get_words(text))

\* m thousandths is num / den rounded to 3 decimals
IsRounded3(m, num, den) ==
  /\ 2 * (1000 * num - m * den) <= den
  /\ 2 * (m * den - 1000 * num) <= den

\* the label and the empty-text result of C7 for a result r and the counts
\* p, n of positive and negative words among t words
SentimentLabelled(r, p, n, t) ==
  /\ (r.sentiment = "positive") <=> (p > n)
  /\ (r.sentiment = "negative") <=> (n > p)
  /\ (r.sentiment = "neutral") <=> (p = n)
  /\ (t > 0 /\ p = n) => (r.confidence = 500)
  /\ (t = 0) =>
       /\ r.sentiment = "neutral"
       /\ r.confidence = 0
       /\ r.scores = [ positive |-> 0, negative |-> 0, neutral |-> 0 ]

\* the confidence of a positive or negative result is exactly the quotient
ExactConfidence(r, p, n, t) ==
  /\ (p > n) => (r.confidence * t = 1000 * p)
  /\ (n > p) => (r.confidence * t = 1000 * n)

\* the confidence of a positive or negative result is the rounded quotient
RoundedConfidence(r, p, n, t) ==
  /\ (p > n) => IsRounded3(r.confidence, p, t)
  /\ (n > p) => IsRounded3(r.confidence, n, t)

\* C7 as stated: the label follows the comparison of the lexicon hit counts
\* ("neutral" with confidence 0.5 on equal counts, "neutral" with confidence
\* 0.0 and zero scores on an empty word list), and the confidence of a
\* positive (negative) text is exactly positive (negative) count / total
\* words.
C7_ExactConfidence ==
  (call.op = "get_sentiment") =>
    /\ SentimentLabelled(ret, PositiveCount, NegativeCount, TotalWords)
    /\ ExactConfidence(ret, PositiveCount, NegativeCount, TotalWords)

\* C7 as amended: the label follows the comparison of the lexicon hit counts
\* as stated, and the confidence of a positive (negative) text is positive
\* (negative) count / total words rounded to 3 decimals.
C7_SentimentLabel ==
  (call.op = "get_sentiment") =>
    /\ SentimentLabelled(ret, PositiveCount, NegativeCount, TotalWords)
    /\ RoundedConfidence(ret, PositiveCount, NegativeCount, TotalWords)

\* a text of three words, one of them positive: confidence 0.333
C7_Witness ==
  /\ call.op = "get_sentiment"
  /\ TotalWords = 3
  /\ PositiveCount = 1
  /\ NegativeCount = 0
  /\ ret.sentiment = "positive"
  /\ ret.confidence = 333

\* the tokens extract_keywords counts: the words that pass its filter
FilteredWords == SelectSeq(TextAnalyzer_get_words(text), KeepWord)

Distinct(f) == { f[i] : i \in DOMAIN f }

Occurrences(f, w) == Cardinality({ i \in DOMAIN f : f[i] = w })

FirstOccurrence(f, w) ==
  CHOOSE i \in DOMAIN f : f[i] = w /\ \A j \in 1..(i - 1) : f[j] # w

\* in f, v ranks before w: more frequent, or as frequent and first seen earlier
RanksBefore(f, v, w) ==
  \/ Occurrences(f, v) > Occurrences(f, w)
  \/ /\ Occurrences(f, v) = Occurrences(f, w)
     /\ FirstOccurrence(f, v) < FirstOccurrence(f, w)

\* ks is the ranking of the filtered tokens f cut to limit
IsRanking(ks, f, limit) ==
  /\ Len(ks) = IF limit <= 0 THEN 0
               ELSE IF limit >= Cardinality(Distinct(f)) THEN Cardinality(Distinct(f))
               ELSE limit
  /\ \A i \in 1..Len(ks) :
       /\ ks[i].word \in Distinct(f)
       /\ ks[i].frequency = Occurrences(f, ks[i].word)
       /\ \A j \in (i + 1)..Len(ks) : RanksBefore(f, ks[i].word, ks[j].word)
       /\ \A w \in Distinct(f) :
            (\A j \in 1..Len(ks) : ks[j].word # w) => RanksBefore(f, ks[i].word, w)

\* C8: extract_keywords returns distinct tokens by descending frequency, ties
\* by first occurrence, cut to the first `limit` entries: none for
\* limit <= 0, all for a limit at least the number of distinct filtered
\* tokens; each frequency is the token's count among the filtered tokens.
C8_KeywordRanking ==
  (call.op = "extract_keywords") => IsRanking(ret, FilteredWords, call.limit)

\* ks holds two entries of frequency 2, in order of first occurrence in f,
\* out of three distinct tokens
TieCut(ks, f) ==
  /\ Cardinality(Distinct(f)) = 3
  /\ Len(ks) = 2
  /\ ks[1].frequency = 2
  /\ ks[2].frequency = 2
  /\ FirstOccurrence(f, ks[1].word) < FirstOccurrence(f, ks[2].word)

\* limit 2 on a text of three distinct tokens, two of them seen twice: the
\* tie is kept in order of first occurrence and the third token is cut
C8_Witness ==
  /\ call.op = "extract_keywords"
  /\ call.limit = 2
  /\ TieCut(ret, FilteredWords)

RECURSIVE SumRelevance(_)
SumRelevance(ks) ==
  IF ks = <<>> THEN 0 ELSE ks[1].relevance + SumRelevance(Tail(ks))

RECURSIVE SumFrequency(_)
SumFrequency(ks) ==
  IF ks = <<>> THEN 0 ELSE ks[1].frequency + SumFrequency(Tail(ks))

\* C9 as stated: the relevance values one extract_keywords call returns sum
\* to at most 1.
C9_RelevanceSumAtMostOne ==
  (call.op = "extract_keywords") => (SumRelevance(ret) <= 1000)

\* the bound on the relevance values ks returned for total filtered tokens
RelevanceBound(ks, total) ==
  /\ \A i \in 1..Len(ks) : IsRounded3(ks[i].relevance, ks[i].frequency, total)
  /\ SumFrequency(ks) <= total
  /\ 2 * SumRelevance(ks) <= 2000 + Len(ks)

\* C9 as amended: each relevance is frequency / total filtered-token count
\* rounded to 3 decimals, the frequencies returned sum to at most that
\* total, and the relevance values sum to at most 1 + 0.0005 for each
\* keyword returned.
C9_RelevanceSumBound ==
  (call.op = "extract_keywords") => RelevanceBound(ret, Len(FilteredWords))

\* six filtered tokens, three distinct: 0.667 + 0.167 + 0.167
C9_Witness ==
  /\ call.op = "extract_keywords"
  /\ Len(FilteredWords) = 6
  /\ Len(ret) = 3
  /\ ret[1].relevance = 667
  /\ ret[2].relevance = 167
  /\ SumRelevance(ret) = 1001

\* every word of words is a stop word or of length <= 2
AllStopOrShort(words) ==
  \A k \in DOMAIN words : words[k] \in STOP_WORDS \/ Len(words[k]) <= 2

\* ks holds only words of words that are no stop word and longer than 2, and
\* is empty when there is none
OnlyKeptWords(ks, words, limit) ==
  /\ \A i \in 1..Len(ks) :
       /\ ks[i].word \notin STOP_WORDS
       /\ Len(ks[i].word) > 2
       /\ \E k \in DOMAIN words : words[k] = ks[i].word
  /\ AllStopOrShort(words) => (ks = <<>>)
  /\ (limit > 0 /\ ks = <<>>) => AllStopOrShort(words)

\* C10: no keyword returned is a stop word or of length <= 2, whatever the
\* length of the stop word; a text whose normalized tokens are all stop
\* words or of length <= 2, such as "the the the a a" with limit 10,
\* yields the empty list.
C10_NoStopOrShortKeyword ==
  (call.op = "extract_keywords") =>
    OnlyKeptWords(ret, TextAnalyzer_get_words(text), call.limit)

\* "the the the a a" with limit 10 yields the empty list
C10_Witness ==
  /\ call.op = "extract_keywords"
  /\ call.limit = 10
  /\ text = SpecText
  /\ Len(TextAnalyzer_get_words(text)) = 5
  /\ ret = <<>>


(***************************************************************************)
(* C11: count_syllables.                                                   *)
(***************************************************************************)
\* the vowel-class characters a, e, i, o, u, y
VowelClass == { "a", "e", "i", "o", "u", "y" }

\* g: the number of maximal runs of consecutive vowel-class characters of w,
\* counted at the position each run starts
VowelRuns(w) ==
  Cardinality({ i \in 1..Len(w) :
                  w[i] \in VowelClass /\ (i = 1 \/ w[i - 1] \notin VowelClass) })

\* d: 1 if w ends in "e" and g > 1, else 0
SilentE(w, g) == IF w # <<>> /\ w[Len(w)] = "e" /\ g > 1 THEN 1 ELSE 0

\* max(1, g - d) for the lowercased word w
SyllableFormulaOf(w, g) == IF g - SilentE(w, g) >= 1 THEN g - SilentE(w, g) ELSE 1

SyllableFormula(word) == SyllableFormulaOf(Lower(word), VowelRuns(Lower(word)))

\* C11: for every word count_syllables returns max(1, g - d), g the number of
\* maximal vowel-class runs of the lowercased word and d = 1 if it ends in
\* "e" and g > 1, else 0; so the result is at least 1, and "cake" and "a"
\* both give 1.
C11_SyllableFormula ==
  /\ call.op = "count_syllables" =>
        /\ ret = SyllableFormula(call.word)
        /\ ret >= 1
  /\ TextAnalyzer_count_syllables(<<"c","a","k","e">>) = 1
  /\ TextAnalyzer_count_syllables(<<"a">>) = 1

\* count_syllables has answered for a word of two vowel runs ending in a
\* silent e, with an upper-case letter and a run of two vowels
C11_Witness ==
  /\ call.op = "count_syllables"
  /\ call.word = <<"y","a","k","E">>
  /\ ret = 1

(***************************************************************************)
(* C12: calculate_readability.                                             *)
(***************************************************************************)
\* the seven bucket labels
BucketLabels ==
  { "very easy", "easy", "fairly easy", "standard", "fairly difficult", "difficult",
    "very difficult" }

\* r is the all-zero result with difficulty "unknown"
IsUnknownResult(r) ==
  /\ r # ZeroDivisionError
  /\ r.flesch_reading_ease = 0
  /\ r.flesch_grade_level = 0
  /\ r.avg_sentence_length = 0
  /\ r.avg_word_length = 0
  /\ r.difficulty = "unknown"

\* r is a result with a bucket label, a reading ease in [0, 100] and a grade
\* level >= 0 (both in hundredths)
IsScoredResult(r) ==
  /\ r # ZeroDivisionError
  /\ r.difficulty \in BucketLabels
  /\ r.flesch_reading_ease >= 0
  /\ r.flesch_reading_ease <= 10000
  /\ r.flesch_grade_level >= 0

\* the claim's case split on the words and sentences of the text
ReadabilityContract(words, sentences, r) ==
  IF words = <<>> \/ sentences = <<>> THEN IsUnknownResult(r) ELSE IsScoredResult(r)

\* C12: calculate_readability returns all-zero metrics with difficulty
\* "unknown" when the text has no sentences or no words (the empty text
\* included); otherwise difficulty is one of the seven bucket labels,
\* flesch_reading_ease is in [0, 100] and flesch_grade_level is >= 0; no text
\* makes it divide by zero.
C12_ReadabilityContract ==
  /\ call.op = "get_readability_score" =>
        /\ ret # ZeroDivisionError
        /\ ReadabilityContract(TextAnalyzer_get_words(call.text),
                               TextAnalyzer_get_sentences(call.text), ret)
  /\ TextAnalyzer_calculate_readability(<<>>) = { ReadabilityUnknown }

\* a text with a sentence but no word was answered "unknown"
C12_WitnessUnknown ==
  /\ call.op = "get_readability_score"
  /\ TextAnalyzer_get_sentences(call.text) # <<>>
  /\ TextAnalyzer_get_words(call.text) = <<>>
  /\ ret.difficulty = "unknown"

\* a text was scored strictly inside (0, 100) with a positive grade level
C12_Witness ==
  /\ call.op = "get_readability_score"
  /\ TextAnalyzer_get_sentences(call.text) # <<>>
  /\ TextAnalyzer_get_words(call.text) # <<>>
  /\ ret.difficulty = "standard"
  /\ ret.flesch_reading_ease = 6640
  /\ ret.flesch_grade_level = 524

(***************************************************************************)
(* C13: the neutral score.                                                 *)
(***************************************************************************)
\* C13: the positive and negative lexicons share no word, so for every text
\* positive count + negative count <= total word count: positive_score +
\* negative_score is at most 1 and the reported scores.neutral is never
\* negative.
C13_NeutralNonNegative ==
  call.op = "get_sentiment" =>
    /\ POSITIVE_WORDS \cap NEGATIVE_WORDS = {}
    /\ PositiveCount + NegativeCount <= TotalWords
    /\ ret.scores.neutral >= 0
    /\ TotalWords > 0 =>
          IsRounded3(ret.scores.neutral,
                     TotalWords - PositiveCount - NegativeCount, TotalWords)

\* a text of positive and negative words only: the two scores sum to 1 and
\* neutral is 0
C13_Witness ==
  /\ call.op = "get_sentiment"
  /\ PositiveCount >= 1
  /\ NegativeCount >= 1
  /\ PositiveCount + NegativeCount = TotalWords
  /\ ret.scores.neutral = 0
====
